---- MODULE Spec2Model ----
(***************************************************************************)
(* A model of torrust-parse-torrent: the verbose decoder                   *)
(* (utils/parse_torrent_verbose.rs), the Torrent record and its derived    *)
(* accessors (models/torrent_file.rs) and the InfoHash value type          *)
(* (models/info_hash.rs).                                                  *)
(*                                                                         *)
(* Byte strings are sequences of bytes (0..255), texts (Rust String) are   *)
(* sequences of Unicode code points.  i64 is modelled by a two's           *)
(* complement word of IntBits bits.                                        *)
(***************************************************************************)
EXTENDS Integers, Sequences, FiniteSets, TLC

\* ------------------------------------------------------------------ bounds

\* Width of the machine word that stands for i64 in the model.
IntBits == 5

\* Strings handed to InfoHash::from_str are 40 - MaxOff .. 40 + MaxOff long.
MaxOff == 2

\* ------------------------------------------------------------- machine ints

Pow2(n) == 2 ^ n

i64_MIN == -Pow2(IntBits - 1)

i64_MAX == Pow2(IntBits - 1) - 1

\* Two's complement wrap-around of an out-of-range sum (release profile).
wrapping_i64(x) == ((x - i64_MIN) % Pow2(IntBits)) + i64_MIN

BitAnd(a, m) == a % (m + 1)          \* used only with m = 2^k - 1

\* ------------------------------------------------------------------ Option

None == [some |-> FALSE]

Some(x) == [some |-> TRUE, v |-> x]

IsSome(o) == o.some

\* ------------------------------------------------- serde_bencode::value::Value

BBytes(b) == [t |-> "Bytes", b |-> b]

BInt(i) == [t |-> "Int", i |-> i]

BList(l) == [t |-> "List", l |-> l]

\* HashMap<Vec<u8>, Value>: a sequence of entries with pairwise distinct keys;
\* the position of an entry says nothing about the order it is visited in.
BDict(d) == [t |-> "Dict", d |-> d]

Entry(k, val) == [k |-> k, val |-> val]

IsBytes(x) == x.t = "Bytes"

IsInt(x) == x.t = "Int"

IsList(x) == x.t = "List"

IsDict(x) == x.t = "Dict"

\* ------------------------------------------------- String::from_utf8_lossy

REPLACEMENT == 65533                  \* U+FFFD

\* slice.get(i) with the 0 the decoder reads past the end (safe_get).
safe_get(b, i) == IF i <= Len(b) THEN b[i] ELSE 0

IsCont(x) == x >= 128 /\ x <= 191      \* x & 0xC0 == 0x80

utf8_char_width(x) ==
    IF x < 128 THEN 1
    ELSE IF x >= 194 /\ x <= 223 THEN 2
    ELSE IF x >= 224 /\ x <= 239 THEN 3
    ELSE IF x >= 240 /\ x <= 244 THEN 4
    ELSE 0

\* The second byte a 3- or 4-byte lead admits.
SecondOk(lead, x) ==
    \/ lead = 224 /\ x >= 160 /\ x <= 191
    \/ lead >= 225 /\ lead <= 236 /\ IsCont(x)
    \/ lead = 237 /\ x >= 128 /\ x <= 159
    \/ lead >= 238 /\ lead <= 239 /\ IsCont(x)
    \/ lead = 240 /\ x >= 144 /\ x <= 191
    \/ lead >= 241 /\ lead <= 243 /\ IsCont(x)
    \/ lead = 244 /\ x >= 128 /\ x <= 143

\* What the chunk decoder makes of the bytes from position i on:
\* [n |-> bytes consumed, c |-> the code point, or REPLACEMENT for an invalid run].
Utf8Next(b, i) ==
    LET x0 == b[i]
        x1 == safe_get(b, i + 1)
        x2 == safe_get(b, i + 2)
        x3 == safe_get(b, i + 3)
        w  == utf8_char_width(x0)
    IN  IF w = 1 THEN [n |-> 1, c |-> x0]
        ELSE IF w = 2 THEN
            IF IsCont(x1)
            THEN [n |-> 2, c |-> BitAnd(x0, 31) * 64 + BitAnd(x1, 63)]
            ELSE [n |-> 1, c |-> REPLACEMENT]
        ELSE IF w = 3 THEN
            IF ~SecondOk(x0, x1) THEN [n |-> 1, c |-> REPLACEMENT]
            ELSE IF ~IsCont(x2) THEN [n |-> 2, c |-> REPLACEMENT]
            ELSE [n |-> 3, c |-> BitAnd(x0, 15) * 4096 + BitAnd(x1, 63) * 64
                                  + BitAnd(x2, 63)]
        ELSE IF w = 4 THEN
            IF ~SecondOk(x0, x1) THEN [n |-> 1, c |-> REPLACEMENT]
            ELSE IF ~IsCont(x2) THEN [n |-> 2, c |-> REPLACEMENT]
            ELSE IF ~IsCont(x3) THEN [n |-> 3, c |-> REPLACEMENT]
            ELSE [n |-> 4, c |-> BitAnd(x0, 7) * 262144 + BitAnd(x1, 63) * 4096
                                  + BitAnd(x2, 63) * 64 + BitAnd(x3, 63)]
        ELSE [n |-> 1, c |-> REPLACEMENT]

RECURSIVE LossyFrom(_, _)
LossyFrom(b, i) ==
    IF i > Len(b) THEN <<>>
    ELSE LET r == Utf8Next(b, i) IN <<r.c>> \o LossyFrom(b, i + r.n)

\* String::from_utf8_lossy(bytes).into_owned(): never fails.
from_utf8_lossy(b) == LossyFrom(b, 1)

\* --------------------------------------------------------- recognised keys
\* The string literals of the match arms, as the texts they are.

K_info == <<105, 110, 102, 111>>  \* "info"

K_announce == <<97, 110, 110, 111, 117, 110, 99, 101>>  \* "announce"

K_nodes == <<110, 111, 100, 101, 115>>  \* "nodes"

K_encoding == <<101, 110, 99, 111, 100, 105, 110, 103>>  \* "encoding"

K_httpseeds == <<104, 116, 116, 112, 115, 101, 101, 100, 115>>  \* "httpseeds"

K_announce_list == <<97, 110, 110, 111, 117, 110, 99, 101, 45, 108, 105, 115, 116>>  \* "announce-list"

K_creation_date == <<99, 114, 101, 97, 116, 105, 111, 110, 32, 100, 97, 116, 101>>  \* "creation date"

K_comment == <<99, 111, 109, 109, 101, 110, 116>>  \* "comment"

K_created_by == <<99, 114, 101, 97, 116, 101, 100, 32, 98, 121>>  \* "created by"

K_name == <<110, 97, 109, 101>>  \* "name"

K_pieces == <<112, 105, 101, 99, 101, 115>>  \* "pieces"

K_piece_length == <<112, 105, 101, 99, 101, 32, 108, 101, 110, 103, 116, 104>>  \* "piece length"

K_md5sum == <<109, 100, 53, 115, 117, 109>>  \* "md5sum"

K_length == <<108, 101, 110, 103, 116, 104>>  \* "length"

K_files == <<102, 105, 108, 101, 115>>  \* "files"

K_private == <<112, 114, 105, 118, 97, 116, 101>>  \* "private"

K_path == <<112, 97, 116, 104>>  \* "path"

K_root_hash == <<114, 111, 111, 116, 32, 104, 97, 115, 104>>  \* "root hash"

K_source == <<115, 111, 117, 114, 99, 101>>  \* "source"

TopKeys == {K_info, K_announce, K_nodes, K_encoding, K_httpseeds,
            K_announce_list, K_creation_date, K_comment, K_created_by}

InfoKeys == {K_name, K_pieces, K_piece_length, K_md5sum, K_length, K_files,
             K_private, K_path, K_root_hash, K_source}

FileKeys == {K_path, K_length, K_md5sum}

\* ------------------------------------------------------------ typed records

\* The TorrentInfo literal the `info` arm starts from.
NewTorrentInfo ==
    [name |-> <<>>, pieces |-> None, piece_length |-> 0, md5sum |-> None,
     length |-> None, files |-> None, private |-> None, path |-> None,
     root_hash |-> None, source |-> None]

\* impl Default for TorrentInfo
DefaultTorrentInfo ==
    [name |-> <<>>, pieces |-> Some(<<>>), piece_length |-> 0, md5sum |-> None,
     length |-> Some(0), files |-> None, private |-> None, path |-> None,
     root_hash |-> None, source |-> None]

\* impl Default for Torrent
DefaultTorrent ==
    [info |-> DefaultTorrentInfo, announce |-> None, announce_list |-> Some(<<>>),
     creation_date |-> None, comment |-> None, created_by |-> None,
     nodes |-> None, encoding |-> None, httpseeds |-> None]

\* The TorrentFile literal every dictionary of the `files` list starts from.
NewTorrentFile == [path |-> <<>>, length |-> 0, md5sum |-> None]

TorrentNode(host, port) == <<host, port>>

\* ------------------------------------------------------- the decoder's arms

\* for x in list { if let BValue::Bytes(b) = x { out.push(lossy(b)) } }
PushBytesOf(l) ==
    LET s == SelectSeq(l, IsBytes)
    IN  [i \in 1..Len(s) |-> from_utf8_lossy(s[i].b)]

\* A node is kept when it is a list whose element 0 is a byte string and
\* whose element 1 is an integer (node_list.get(0), node_list.get(1)).
IsNode(x) ==
    /\ IsList(x)
    /\ Len(x.l) >= 1 /\ IsBytes(x.l[1])
    /\ Len(x.l) >= 2 /\ IsInt(x.l[2])

NodesOf(l) ==
    LET s == SelectSeq(l, IsNode)
    IN  [i \in 1..Len(s) |-> TorrentNode(from_utf8_lossy(s[i].l[1].b), s[i].l[2].i)]

AnnounceListOf_keeps(l) ==
    [i \in 1..Len(l) |-> IF IsList(l[i]) THEN PushBytesOf(l[i].l) ELSE <<>>]

\* for list in lists { if let BValue::List(announce_list) = list { ... } }
AnnounceListOf(l) ==
    LET s == SelectSeq(l, IsList)
    IN  [i \in 1..Len(s) |-> PushBytesOf(s[i].l)]

\* One iteration of the loop over a file dictionary.
FileKeyStep(tf, key, value) ==
    LET file_key == from_utf8_lossy(key)
    IN  IF file_key = K_path THEN
            IF IsList(value)
            THEN [tf EXCEPT !.path = tf.path \o PushBytesOf(value.l)]
            ELSE tf
        ELSE IF file_key = K_length THEN
            IF IsInt(value) THEN [tf EXCEPT !.length = value.i] ELSE tf
        ELSE IF file_key = K_md5sum THEN
            IF IsBytes(value)
            THEN [tf EXCEPT !.md5sum = Some(from_utf8_lossy(value.b))]
            ELSE tf
        ELSE tf                                   \* "Skipped file key"

PrivatePanics_neg(key, value) ==
    /\ from_utf8_lossy(key) = K_private
    /\ IsInt(value)
    /\ value.i > 1

\* The `private` arm panics on an integer other than 0 and 1.
PrivatePanics(key, value) ==
    /\ from_utf8_lossy(key) = K_private
    /\ IsInt(value)
    /\ value.i # 0 /\ value.i # 1

\* The `files` arm with a list runs the loop over the files.
EntersFiles(key, value) == from_utf8_lossy(key) = K_files /\ IsList(value)

\* One iteration of the loop over the info dictionary, for every arm but
\* the two above.
InfoKeyStep(inf, key, value) ==
    LET info_key == from_utf8_lossy(key)
    IN  IF info_key = K_name THEN
            IF IsBytes(value)
            THEN [inf EXCEPT !.name = from_utf8_lossy(value.b)] ELSE inf
        ELSE IF info_key = K_pieces THEN
            IF IsBytes(value) THEN [inf EXCEPT !.pieces = Some(value.b)] ELSE inf
        ELSE IF info_key = K_piece_length THEN
            IF IsInt(value) THEN [inf EXCEPT !.piece_length = value.i] ELSE inf
        ELSE IF info_key = K_md5sum THEN
            IF IsBytes(value)
            THEN [inf EXCEPT !.md5sum = Some(from_utf8_lossy(value.b))] ELSE inf
        ELSE IF info_key = K_length THEN
            IF IsInt(value) THEN [inf EXCEPT !.length = Some(value.i)] ELSE inf
        ELSE IF info_key = K_files THEN inf        \* not a list: nothing
        ELSE IF info_key = K_private THEN
            IF IsInt(value) /\ value.i = 0 THEN [inf EXCEPT !.private = Some(0)]
            ELSE IF IsInt(value) /\ value.i = 1 THEN [inf EXCEPT !.private = Some(1)]
            ELSE inf                              \* not an integer: nothing
        ELSE IF info_key = K_path THEN
            IF IsList(value)
            THEN [inf EXCEPT !.path = Some(PushBytesOf(value.l))] ELSE inf
        ELSE IF info_key = K_root_hash THEN
            IF IsBytes(value)
            THEN [inf EXCEPT !.root_hash = Some(from_utf8_lossy(value.b))] ELSE inf
        ELSE IF info_key = K_source THEN
            IF IsBytes(value)
            THEN [inf EXCEPT !.source = Some(from_utf8_lossy(value.b))] ELSE inf
        ELSE inf                                  \* "Skipped info key"

EntersInfo_prefix(key, value) ==
    /\ Len(from_utf8_lossy(key)) >= 4
    /\ SubSeq(from_utf8_lossy(key), 1, 4) = K_info
    /\ IsDict(value)

\* The `info` arm with a dictionary runs the loop over the info dictionary.
EntersInfo(key, value) == from_utf8_lossy(key) = K_info /\ IsDict(value)

AnnounceArm_clears(t, value) ==
    IF IsBytes(value)
    THEN [t EXCEPT !.announce = Some(from_utf8_lossy(value.b)), !.comment = None]
    ELSE t

AnnounceArm_default(t, value) ==
    IF IsBytes(value)
    THEN [t EXCEPT !.announce = Some(from_utf8_lossy(value.b))]
    ELSE [t EXCEPT !.announce = Some(<<>>)]

\* The `announce` arm.
AnnounceArm(t, value) ==
    IF IsBytes(value)
    THEN [t EXCEPT !.announce = Some(from_utf8_lossy(value.b))] ELSE t

\* One iteration of the loop over the top-level dictionary, for every arm
\* but the one above.
TopKeyStep(t, k, value) ==
    LET key == from_utf8_lossy(k)
    IN  IF key = K_info THEN t                     \* not a dictionary: nothing
        ELSE IF key = K_announce THEN AnnounceArm(t, value)
        ELSE IF key = K_nodes THEN
            IF IsList(value) THEN [t EXCEPT !.nodes = Some(NodesOf(value.l))] ELSE t
        ELSE IF key = K_encoding THEN
            IF IsBytes(value)
            THEN [t EXCEPT !.encoding = Some(from_utf8_lossy(value.b))] ELSE t
        ELSE IF key = K_httpseeds THEN
            IF IsList(value)
            THEN [t EXCEPT !.httpseeds = Some(PushBytesOf(value.l))] ELSE t
        ELSE IF key = K_announce_list THEN
            IF IsList(value)
            THEN [t EXCEPT !.announce_list = Some(AnnounceListOf(value.l))] ELSE t
        ELSE IF key = K_creation_date THEN
            IF IsInt(value) THEN [t EXCEPT !.creation_date = Some(value.i)] ELSE t
        ELSE IF key = K_comment THEN
            IF IsBytes(value)
            THEN [t EXCEPT !.comment = Some(from_utf8_lossy(value.b))] ELSE t
        ELSE IF key = K_created_by THEN
            IF IsBytes(value)
            THEN [t EXCEPT !.created_by = Some(from_utf8_lossy(value.b))] ELSE t
        ELSE t                                    \* "Skipped Dict key"

\* ------------------------------------------------------ results of a call

NotCalled == [st |-> "not called"]

Panicked == [st |-> "panic"]

Returned(x) == [st |-> "ok", v |-> x]

IsReturned(r) == r.st = "ok"

\* ------------------------------------------------ Torrent's derived values

\* The loop `file_size += file.length` from position i on, acc so far.  An
\* i64 sum out of range panics in a build with overflow checks and wraps in
\* one without.
RECURSIVE SumLengths(_, _, _, _)
SumLengths(fs, i, acc, checks) ==
    IF i > Len(fs) THEN Returned(acc)
    ELSE LET s == acc + fs[i].length
         IN  IF s < i64_MIN \/ s > i64_MAX
             THEN IF checks THEN Panicked
                  ELSE SumLengths(fs, i + 1, wrapping_i64(s), checks)
             ELSE SumLengths(fs, i + 1, s, checks)

\* Torrent::file_size
file_size(t, checks) ==
    IF IsSome(t.info.length) THEN Returned(t.info.length.v)
    ELSE IF ~IsSome(t.info.files) THEN Returned(0)
    ELSE SumLengths(t.info.files.v, 1, 0, checks)

RECURSIVE Flatten(_)
Flatten(ll) == IF ll = <<>> THEN <<>> ELSE Head(ll) \o Flatten(Tail(ll))

\* Torrent::announce_urls
announce_urls(t) ==
    IF IsSome(t.announce_list) THEN Returned(Flatten(t.announce_list.v))
    ELSE IF IsSome(t.announce) THEN Returned(<<t.announce.v>>)
    ELSE Panicked                  \* expect("... should not be None")

\* ------------------------------------------------------- sample documents

B_a == <<97>>                         \* "a"

B_b == <<98>>                         \* "b"

B_e == <<195, 169>>                   \* U+00E9 in UTF-8

B_bad == <<255>>                      \* not UTF-8

K_zz == <<122, 122>>                  \* "zz", no recognised name

K_infoFF == <<105, 110, 102, 111, 255>>   \* "info" and a byte that is not UTF-8

FilesSamples ==
    << BList(<< BDict(<<Entry(K_length, BInt(3)),
                        Entry(K_path, BList(<<BBytes(B_a), BInt(1), BBytes(B_b)>>))>>),
                BDict(<<Entry(K_length, BInt(4)), Entry(K_md5sum, BBytes(B_e))>>) >>),
       BList(<< BDict(<<Entry(K_length, BInt(i64_MAX))>>),
                BDict(<<Entry(K_length, BInt(1))>>),
                BDict(<<Entry(K_length, BInt(-2))>>) >>),
       BList(<< BInt(1), BDict(<<>>), BDict(<<Entry(K_zz, BInt(1))>>),
                BDict(<<Entry(K_length, BBytes(B_a)), Entry(K_path, BInt(2)),
                        Entry(K_md5sum, BInt(0))>>),
                BDict(<<Entry(K_length, BInt(2))>>) >>),
       BList(<<>>) >>

InfoPool ==
    << Entry(K_name, BBytes(B_a)), Entry(K_name, BInt(1)),
       Entry(K_pieces, BBytes(B_bad)), Entry(K_pieces, BList(<<>>)),
       Entry(K_piece_length, BInt(7)), Entry(K_piece_length, BBytes(B_a)),
       Entry(K_md5sum, BBytes(B_a)), Entry(K_md5sum, BInt(0)),
       Entry(K_length, BInt(5)), Entry(K_length, BBytes(B_a)),
       Entry(K_files, FilesSamples[1]), Entry(K_files, FilesSamples[2]),
       Entry(K_files, FilesSamples[3]), Entry(K_files, FilesSamples[4]),
       Entry(K_files, BInt(3)),
       Entry(K_private, BInt(0)), Entry(K_private, BInt(1)),
       Entry(K_private, BInt(7)), Entry(K_private, BInt(-1)),
       Entry(K_private, BBytes(B_a)),
       Entry(K_path, BList(<<BBytes(B_a), BInt(1), BBytes(B_bad)>>)),
       Entry(K_path, BBytes(B_a)),
       Entry(K_root_hash, BBytes(B_a)), Entry(K_root_hash, BInt(1)),
       Entry(K_source, BBytes(B_a)), Entry(K_source, BDict(<<>>)),
       Entry(K_zz, BInt(1)), Entry(K_infoFF, BBytes(B_a)) >>

TopPool ==
    << Entry(K_announce, BBytes(B_a)), Entry(K_announce, BBytes(B_bad)),
       Entry(K_announce, BInt(1)),
       Entry(K_announce_list,
             BList(<< BList(<<BBytes(B_a), BBytes(B_b)>>), BInt(1),
                      BList(<<BInt(1), BBytes(B_e)>>), BList(<<>>) >>)),
       Entry(K_announce_list, BList(<<>>)), Entry(K_announce_list, BInt(0)),
       Entry(K_nodes,
             BList(<< BList(<<BBytes(B_a), BInt(1)>>), BList(<<BBytes(B_a)>>),
                      BList(<<BInt(1), BBytes(B_a)>>), BInt(2),
                      BList(<<BBytes(B_b), BInt(2), BInt(3)>>),
                      BList(<<BBytes(B_a), BBytes(B_b)>>) >>)),
       Entry(K_nodes, BBytes(B_a)),
       Entry(K_encoding, BBytes(B_a)), Entry(K_encoding, BInt(1)),
       Entry(K_httpseeds, BList(<<BBytes(B_a), BInt(1), BBytes(B_b)>>)),
       Entry(K_httpseeds, BBytes(B_a)),
       Entry(K_creation_date, BInt(3)), Entry(K_creation_date, BBytes(B_a)),
       Entry(K_comment, BBytes(B_a)), Entry(K_comment, BList(<<>>)),
       Entry(K_created_by, BBytes(B_a)), Entry(K_created_by, BInt(1)),
       Entry(K_zz, BInt(1)), Entry(K_infoFF, BDict(<<>>)) >>

\* The dictionaries of at most two entries of a pool, keys pairwise distinct.
DictsOf(pool) ==
    {<<>>}
    \cup {<<pool[i]>> : i \in 1..Len(pool)}
    \cup {<<pool[i], pool[j]>> :
            <<i, j>> \in {p \in (1..Len(pool)) \X (1..Len(pool)) :
                            p[1] < p[2] /\ pool[p[1]].k # pool[p[2]].k}}

\* {name, piece length, length}: a single-file torrent.
InfoSingleFile ==
    BDict(<<Entry(K_name, BBytes(B_a)), Entry(K_piece_length, BInt(7)),
            Entry(K_length, BInt(5))>>)

InfoValues ==
    {BDict(d) : d \in DictsOf(InfoPool)}
    \cup {InfoSingleFile, BList(<<>>), BInt(0), BBytes(B_a)}

Documents ==
    \* the info dictionary varies
    {BDict(<<Entry(K_info, v)>> \o co) :
        v \in InfoValues,
        co \in {<<>>, <<Entry(K_announce, BBytes(B_a))>>, <<Entry(K_zz, BInt(1))>>}}
    \* the other top-level keys vary
    \cup {BDict(inf \o d) :
            inf \in {<<>>, <<Entry(K_info, InfoSingleFile)>>,
                     <<Entry(K_info, BList(<<>>))>>},
            d \in DictsOf(TopPool)}
    \* not a dictionary
    \cup {BBytes(<<>>), BBytes(B_a), BInt(0), BInt(7), BList(<<>>),
          BList(<<BDict(<<Entry(K_info, InfoSingleFile)>>)>>)}

\* Torrent values built field by field (the fields are public).
TorrentSamples ==
    {[DefaultTorrent EXCEPT !.announce_list = al, !.announce = an,
                            !.info.length = len, !.info.files = fs] :
        al \in {None, Some(<<>>), Some(<< <<B_a>>, <<>>, <<B_b, B_a>> >>)},
        an \in {None, Some(B_a)},
        len \in {None, Some(5)},
        fs \in {None, Some(<<>>),
                Some(<<[NewTorrentFile EXCEPT !.length = 3],
                       [NewTorrentFile EXCEPT !.length = 4]>>),
                Some(<<[NewTorrentFile EXCEPT !.length = i64_MAX],
                       [NewTorrentFile EXCEPT !.length = 1]>>)}}

\* ------------------------------------------------------------------- state

VARIABLES
    bvalue,           \* decode_torrent's argument
    pc,               \* where the program is
    torrent,          \* decode_torrent's local `torrent`
    dict_rest,        \* top-level entries the loop has not visited yet
    cur,              \* the top-level `info` entry being decoded
    info,             \* the local `info`
    info_rest,        \* info entries the loop has not visited yet
    cur_info,         \* the `files` entry of the info dictionary being decoded
    file_i,           \* position of the loop over the files list
    torrent_files,    \* the local `torrent_files`
    torrent_file,     \* the local `torrent_file`
    file_rest,        \* file entries the loop has not visited yet
    result,           \* what decode_torrent gave its caller
    overflow_checks,  \* the build profile: are integer overflows checked
    size_out,         \* what the last file_size call gave
    urls_out,         \* what the last announce_urls call gave
    order,            \* the top-level entries in the order the map yielded them
    info_order,       \* the info entries in the order the map yielded them
    ih_pc,            \* where the InfoHash caller is
    ih_src,           \* what it starts from: "bytes" or "str"
    ih_bytes,         \* the byte slice it holds
    ih_str,           \* the string it holds
    info_hash,        \* what from_bytes / from_str of its input gave
    hex_out,          \* what to_hex_string of that InfoHash gave
    parsed,           \* what from_str of that hex string gave
    tried,            \* what InfoHash::try_from of the byte buffer gave
    ser_out,          \* what serializing that InfoHash handed the serializer
    de_out,           \* what deserializing the caller's string gave
    de_round          \* what deserializing the serialized InfoHash gave

dvars == <<bvalue, pc, torrent, dict_rest, cur, info, info_rest, cur_info,
           file_i, torrent_files, torrent_file, file_rest, result,
           overflow_checks, size_out, urls_out, order, info_order>>

ihvars == <<ih_pc, ih_src, ih_bytes, ih_str, info_hash, hex_out, parsed,
            tried, ser_out, de_out, de_round>>

vars == <<dvars, ihvars>>

\* ------------------------------------------------------ decode_torrent

TopLevelPanics_nolist(bv) == IsBytes(bv) \/ IsInt(bv)

\* The arms of `match bvalue` that panic: Bytes, Int and List.
TopLevelPanics(bv) == IsBytes(bv) \/ IsInt(bv) \/ IsList(bv)

InfoIdle ==
    /\ ih_pc = "idle" /\ ih_src = "none" /\ ih_bytes = <<>> /\ ih_str = <<>>
    /\ info_hash = NotCalled /\ hex_out = NotCalled /\ parsed = NotCalled
    /\ tried = NotCalled /\ ser_out = NotCalled
    /\ de_out = NotCalled /\ de_round = NotCalled

Init ==
    /\ bvalue \in Documents
    /\ overflow_checks \in BOOLEAN
    /\ pc = "call"
    /\ torrent = DefaultTorrent
    /\ dict_rest = {} /\ cur = 0
    /\ info = NewTorrentInfo /\ info_rest = {} /\ cur_info = 0
    /\ file_i = 0 /\ torrent_files = <<>>
    /\ torrent_file = NewTorrentFile /\ file_rest = {}
    /\ result = NotCalled /\ size_out = NotCalled /\ urls_out = NotCalled
    /\ order = <<>> /\ info_order = <<>>
    /\ InfoIdle

\* The dictionaries and the list the nested loops run over.
info_dict == bvalue.d[cur].val.d

files == info_dict[cur_info].val.l

file_dict == files[file_i].d

\* let mut torrent = Torrent::default(); match bvalue { ... }: a dictionary
\* starts the loop over its entries, every other variant panics.
Call ==
    /\ pc = "call" /\ result = NotCalled
    /\ torrent' = DefaultTorrent
    /\ IF TopLevelPanics(bvalue)
       THEN /\ pc' = "panicked"
            /\ result' = Panicked
            /\ UNCHANGED dict_rest
       ELSE /\ pc' = "dict"          \* the Dict arm; no other value gets here
            /\ dict_rest' = IF IsDict(bvalue) THEN 1..Len(bvalue.d) ELSE {}
            /\ UNCHANGED result
    /\ order' = <<>>
    /\ UNCHANGED <<bvalue, cur, info, info_rest, cur_info, file_i, torrent_files,
                   torrent_file, file_rest, overflow_checks, info_order,
                   size_out, urls_out>>
    /\ UNCHANGED ihvars

\* for (key, value) in dict: one entry, in whatever order the map yields it.
VisitKey ==
    /\ pc = "dict"
    /\ \E i \in dict_rest :
         LET e == bvalue.d[i]
         IN  /\ dict_rest' = dict_rest \ {i}
             /\ order' = Append(order, i)
             /\ IF EntersInfo(e.k, e.val)
                THEN /\ pc' = "info"
                     /\ cur' = i
                     /\ info' = NewTorrentInfo
                     /\ info_rest' = 1..Len(e.val.d)
                     /\ info_order' = <<>>
                     /\ UNCHANGED torrent
                ELSE /\ torrent' = TopKeyStep(torrent, e.k, e.val)
                     /\ UNCHANGED <<pc, cur, info, info_rest, info_order>>
    /\ UNCHANGED <<bvalue, cur_info, file_i, torrent_files, torrent_file,
                   file_rest, result, overflow_checks, size_out, urls_out>>
    /\ UNCHANGED ihvars

\* for (info_key, info_value) in info_dict: one entry.
VisitInfoKey ==
    /\ pc = "info"
    /\ \E j \in info_rest :
         LET e == info_dict[j]
         IN  /\ info_rest' = info_rest \ {j}
             /\ info_order' = Append(info_order, j)
             /\ IF PrivatePanics(e.k, e.val)
                THEN /\ pc' = "panicked"
                     /\ result' = Panicked
                     /\ UNCHANGED <<info, cur_info, file_i, torrent_files>>
                ELSE IF EntersFiles(e.k, e.val)
                THEN /\ pc' = "files"
                     /\ cur_info' = j
                     /\ file_i' = 1
                     /\ torrent_files' = <<>>
                     /\ UNCHANGED <<info, result>>
                ELSE /\ info' = InfoKeyStep(info, e.k, e.val)
                     /\ UNCHANGED <<pc, result, cur_info, file_i, torrent_files>>
    /\ UNCHANGED <<bvalue, torrent, dict_rest, cur, torrent_file, file_rest,
                   overflow_checks, order, size_out, urls_out>>
    /\ UNCHANGED ihvars

\* for file in files: a dictionary starts the loop over its entries, any
\* other value is passed over.
NextFile ==
    /\ pc = "files" /\ file_i <= Len(files)
    /\ IF IsDict(files[file_i])
       THEN /\ pc' = "file"
            /\ torrent_file' = NewTorrentFile
            /\ file_rest' = 1..Len(file_dict)
            /\ UNCHANGED file_i
       ELSE /\ file_i' = file_i + 1
            /\ UNCHANGED <<pc, torrent_file, file_rest>>
    /\ UNCHANGED <<bvalue, torrent, dict_rest, cur, info, info_rest, cur_info,
                   torrent_files, result, overflow_checks, order, info_order, size_out, urls_out>>
    /\ UNCHANGED ihvars

\* for (file_key, file_value) in file_dict: one entry.
VisitFileKey ==
    /\ pc = "file"
    /\ \E m \in file_rest :
         /\ file_rest' = file_rest \ {m}
         /\ torrent_file' = FileKeyStep(torrent_file, file_dict[m].k, file_dict[m].val)
    /\ UNCHANGED <<bvalue, pc, torrent, dict_rest, cur, info, info_rest, cur_info,
                   file_i, torrent_files, result, overflow_checks, order, info_order, size_out,
                   urls_out>>
    /\ UNCHANGED ihvars

\* torrent_files.push(torrent_file), after the loop over the file's entries.
PushFile ==
    /\ pc = "file" /\ file_rest = {}
    /\ torrent_files' = Append(torrent_files, torrent_file)
    /\ file_i' = file_i + 1
    /\ pc' = "files"
    /\ UNCHANGED <<bvalue, torrent, dict_rest, cur, info, info_rest, cur_info,
                   torrent_file, file_rest, result, overflow_checks, order, info_order, size_out,
                   urls_out>>
    /\ UNCHANGED ihvars

\* info.files = Some(torrent_files), after the loop over the files.
SetFiles ==
    /\ pc = "files" /\ file_i > Len(files)
    /\ info' = [info EXCEPT !.files = Some(torrent_files)]
    /\ pc' = "info"
    /\ UNCHANGED <<bvalue, torrent, dict_rest, cur, info_rest, cur_info, file_i,
                   torrent_files, torrent_file, file_rest, result,
                   overflow_checks, order, info_order, size_out, urls_out>>
    /\ UNCHANGED ihvars

\* torrent.info = info, after the loop over the info dictionary.
SetInfo ==
    /\ pc = "info" /\ info_rest = {}
    /\ torrent' = [torrent EXCEPT !.info = info]
    /\ pc' = "dict"
    /\ UNCHANGED <<bvalue, dict_rest, cur, info, info_rest, cur_info, file_i,
                   torrent_files, torrent_file, file_rest, result,
                   overflow_checks, order, info_order, size_out, urls_out>>
    /\ UNCHANGED ihvars

\* The function's last expression: `torrent`.
Return ==
    /\ pc = "dict" /\ dict_rest = {}
    /\ result' = Returned(torrent)
    /\ pc' = "returned"
    /\ UNCHANGED <<bvalue, torrent, dict_rest, cur, info, info_rest, cur_info,
                   file_i, torrent_files, torrent_file, file_rest,
                   overflow_checks, order, info_order, size_out, urls_out>>
    /\ UNCHANGED ihvars

\* A Torrent written out by the caller instead of decoded (no document is
\* involved: the model keeps the empty one).
Construct ==
    /\ pc = "call" /\ bvalue = BDict(<<>>)
    /\ \E t \in TorrentSamples : result' = Returned(t)
    /\ pc' = "built"
    /\ UNCHANGED <<bvalue, torrent, dict_rest, cur, info, info_rest, cur_info,
                   file_i, torrent_files, torrent_file, file_rest,
                   overflow_checks, order, info_order, size_out, urls_out>>
    /\ UNCHANGED ihvars

\* torrent.file_size() on the Torrent the caller holds (&self: read only).
FileSize ==
    /\ IsReturned(result)
    /\ size_out' = file_size(result.v, overflow_checks)
    /\ UNCHANGED <<bvalue, pc, torrent, dict_rest, cur, info, info_rest, cur_info,
                   file_i, torrent_files, torrent_file, file_rest, result,
                   overflow_checks, order, info_order, urls_out>>
    /\ UNCHANGED ihvars

\* torrent.announce_urls() on the Torrent the caller holds (&self: read only).
AnnounceUrls ==
    /\ IsReturned(result)
    /\ urls_out' = announce_urls(result.v)
    /\ UNCHANGED <<bvalue, pc, torrent, dict_rest, cur, info, info_rest, cur_info,
                   file_i, torrent_files, torrent_file, file_rest, result,
                   overflow_checks, order, info_order, size_out>>
    /\ UNCHANGED ihvars

Next ==
    \/ Call \/ VisitKey \/ VisitInfoKey \/ NextFile \/ VisitFileKey
    \/ PushFile \/ SetFiles \/ SetInfo \/ Return
    \/ Construct \/ FileSize \/ AnnounceUrls

Spec == Init /\ [][Next]_vars

\* ----------------------------------------------------------------- InfoHash

INFO_HASH_BYTES_LEN == 20

Err(e) == [st |-> "err", e |-> e]

Zeros(n) == [i \in 1..n |-> 0]

\* char::encode_utf8: the bytes of one code point.
encode_utf8(c) ==
    IF c < 128 THEN <<c>>
    ELSE IF c < 2048 THEN <<192 + (c \div 64), 128 + (c % 64)>>
    ELSE IF c < 65536
    THEN <<224 + (c \div 4096), 128 + ((c \div 64) % 64), 128 + (c % 64)>>
    ELSE <<240 + (c \div 262144), 128 + ((c \div 4096) % 64),
           128 + ((c \div 64) % 64), 128 + (c % 64)>>

\* str::as_bytes: the UTF-8 bytes of a string, the encodings of its
\* characters one after the other (joined by halves).
RECURSIVE as_bytes(_)
as_bytes(str) ==
    IF str = <<>> THEN <<>>
    ELSE IF Len(str) = 1 THEN encode_utf8(str[1])
    ELSE LET h == Len(str) \div 2
         IN  as_bytes(SubSeq(str, 1, h)) \o as_bytes(SubSeq(str, h + 1, Len(str)))

\* std::str::from_utf8: the text of the bytes, an error when they are not
\* UTF-8.
RECURSIVE Utf8From(_, _)
Utf8From(b, i) ==
    IF i > Len(b) THEN Returned(<<>>)
    ELSE LET r == Utf8Next(b, i)
         IN  IF r.c = REPLACEMENT /\ SubSeq(b, i, i + r.n - 1) # <<239, 191, 189>>
             THEN Err("Utf8Error")
             ELSE LET rest == Utf8From(b, i + r.n)
                  IN  IF IsReturned(rest) THEN Returned(<<r.c>> \o rest.v) ELSE rest

\* (bytes that are all ASCII are their own text)
from_utf8(b) ==
    IF \A i \in 1..Len(b) : b[i] < 128 THEN Returned(b) ELSE Utf8From(b, 1)

\* binascii's digit table: "0123456789abcdef".
DIGITS == <<48, 49, 50, 51, 52, 53, 54, 55, 56, 57, 97, 98, 99, 100, 101, 102>>

DIGITS_UPPER == <<48, 49, 50, 51, 52, 53, 54, 55, 56, 57, 65, 66, 67, 68, 69, 70>>

\* output[2 idx] and output[2 idx + 1] get the two digits of input[idx]
\* (positions from 0 there, from 1 here).
Hexlify(input, output, digits) ==
    [k \in 1..Len(output) |->
        IF k > 2 * Len(input) THEN output[k]
        ELSE IF k % 2 = 1 THEN digits[(input[(k + 1) \div 2] \div 16) + 1]
        ELSE digits[(input[k \div 2] % 16) + 1]]

\* binascii::bin2hex(input, output): the buffer after the call, or an error.
bin2hex(input, output) ==
    IF Len(output) < Len(input) * 2 THEN Err("InvalidOutputLength")
    ELSE Returned(Hexlify(input, output, DIGITS))

bin2hex_upper(input, output) ==
    IF Len(output) < Len(input) * 2 THEN Err("InvalidOutputLength")
    ELSE Returned(Hexlify(input, output, DIGITS_UPPER))

\* The value of a hex digit, -1 for any other byte.
HexVal(d) ==
    IF d >= 97 /\ d <= 102 THEN d - 97 + 10
    ELSE IF d >= 65 /\ d <= 70 THEN d - 65 + 10
    ELSE IF d >= 48 /\ d <= 57 THEN d - 48
    ELSE -1

\* output[block] gets the byte the two digits of the block make.
Unhexlify(input, output) ==
    [k \in 1..Len(output) |->
        IF k > Len(input) \div 2 THEN output[k]
        ELSE (HexVal(input[2 * k - 1]) * 16 + HexVal(input[2 * k])) % 256]

\* binascii::hex2bin(input, output): the buffer after the call, or an error
\* (the first byte that is no hex digit ends the call).
hex2bin(input, output) ==
    IF Len(input) % 2 # 0 THEN Err("InvalidInputLength")
    ELSE IF Len(input) \div 2 > Len(output) THEN Err("InvalidOutputLength")
    ELSE IF \E k \in 1..Len(input) : HexVal(input[k]) < 0 THEN Err("InvalidInput")
    ELSE Returned(Unhexlify(input, output))

\* InfoHash::from_bytes: asserts the length, then copies the slice.
from_bytes(bytes) ==
    IF Len(bytes) # INFO_HASH_BYTES_LEN THEN Panicked
    ELSE Returned([i \in 1..INFO_HASH_BYTES_LEN |-> bytes[i]])

fmt_upper(h) ==
    LET r == bin2hex_upper(h, Zeros(40))
    IN  IF ~IsReturned(r) THEN Panicked
        ELSE LET str == from_utf8(r.v)
             IN  IF IsReturned(str) THEN str ELSE Panicked

\* impl Display for InfoHash: hexlify into 40 bytes and write them as text;
\* expect and unwrap panic on an error.
fmt(h) ==
    LET r == bin2hex(h, Zeros(40))
    IN  IF ~IsReturned(r) THEN Panicked
        ELSE LET str == from_utf8(r.v)
             IN  IF IsReturned(str) THEN str ELSE Panicked

\* InfoHash::to_hex_string: self.to_string()
to_hex_string(h) == fmt(h)

from_str_nolen(str) ==
    LET r == hex2bin(as_bytes(str), Zeros(20))
    IN  IF IsReturned(r) THEN Returned(r.v) ELSE r

from_str_unfilled(str) ==
    IF Len(as_bytes(str)) # 40 THEN Err("InvalidInputLength")
    ELSE LET r == hex2bin(as_bytes(str), Zeros(20))
         IN  IF IsReturned(r) THEN Returned(Zeros(20)) ELSE r

\* impl FromStr for InfoHash: s.len() is the length in bytes.
from_str(str) ==
    IF Len(as_bytes(str)) # 40 THEN Err("InvalidInputLength")
    ELSE LET r == hex2bin(as_bytes(str), Zeros(20))
         IN  IF IsReturned(r) THEN Returned(r.v) ELSE r

\* impl Display for usize: the decimal digits of n, as text.
RECURSIVE fmt_usize(_)
fmt_usize(n) ==
    IF n < 10 THEN <<48 + n>> ELSE fmt_usize(n \div 10) \o <<48 + (n % 10)>>

\* "got " and " bytes, expected ", the literal pieces of the format string.
S_got == <<103, 111, 116, 32>>

S_bytes_expected ==
    <<32, 98, 121, 116, 101, 115, 44, 32, 101, 120, 112, 101, 99, 116, 101, 100, 32>>

\* format! {"got {} bytes, expected {}", bytes.len(), INFO_HASH_BYTES_LEN}
message(bytes) ==
    S_got \o fmt_usize(Len(bytes)) \o S_bytes_expected
          \o fmt_usize(INFO_HASH_BYTES_LEN)

\* Location::caller() in a function that does not track its caller: the
\* place of that very call.
Location(line) == [file |-> "src/models/info_hash.rs", line |-> line]

NotEnoughBytes(bytes) ==
    [kind |-> "NotEnoughBytes", location |-> Location(109),
     message |-> message(bytes)]

TooManyBytes(bytes) ==
    [kind |-> "TooManyBytes", location |-> Location(115),
     message |-> message(bytes)]

try_from_nomany(bytes) ==
    IF Len(bytes) < INFO_HASH_BYTES_LEN THEN Err(NotEnoughBytes(bytes))
    ELSE from_bytes(bytes)

\* impl TryFrom<Vec<u8>> for InfoHash: the two length checks, then
\* Ok(Self::from_bytes(&bytes)), which panics where from_bytes does.
try_from(bytes) ==
    IF Len(bytes) < INFO_HASH_BYTES_LEN THEN Err(NotEnoughBytes(bytes))
    ELSE IF Len(bytes) > INFO_HASH_BYTES_LEN THEN Err(TooManyBytes(bytes))
    ELSE from_bytes(bytes)

\* The string of serde's data model: what Serializer::serialize_str is
\* given and what Deserializer::deserialize_str hands the visitor.
Str(v) == [t |-> "Str", s |-> v]

\* serde::de::Error::invalid_value(Unexpected::Str(v), &exp)
invalid_value(v, exp) == Err([kind |-> "invalid_value", unexp |-> v, exp |-> exp])

\* impl Serialize for InfoHash: hexlify into 40 bytes, take the slice
\* bin2hex returns (the bytes it wrote), read it as text and serialize it
\* as a string; both unwraps panic on an error.
serialize(h) ==
    LET r == bin2hex(h, Zeros(40))
    IN  IF ~IsReturned(r) THEN Panicked
        ELSE LET bytes_out == SubSeq(r.v, 1, 2 * Len(h))
                 str_out == from_utf8(bytes_out)
             IN  IF IsReturned(str_out) THEN Returned(Str(str_out.v))
                 ELSE Panicked

visit_str_nolen(v) ==
    LET res == hex2bin(as_bytes(v), Zeros(20))
    IN  IF ~IsReturned(res) THEN invalid_value(v, "a hexadecimal string")
        ELSE Returned(res.v)

\* InfoHashVisitor::visit_str: v.len() is the length in bytes.
visit_str(v) ==
    IF Len(as_bytes(v)) # 40 THEN invalid_value(v, "a 40 character long string")
    ELSE LET res == hex2bin(as_bytes(v), Zeros(20))
         IN  IF ~IsReturned(res) THEN invalid_value(v, "a hexadecimal string")
             ELSE Returned(res.v)

\* impl Deserialize for InfoHash: des.deserialize_str(InfoHashVisitor); a
\* string goes to visit_str, any other value to the visitor's defaults,
\* which refuse it.
deserialize(des) ==
    IF des.t = "Str" THEN visit_str(des.s)
    ELSE Err([kind |-> "invalid_type", unexp |-> des.t,
              exp |-> "a 40 character long hash"])

\* --------------------------------------------------- sample bytes and strings

\* Every hex digit, both cases.
HexChars == {48, 49, 50, 51, 52, 53, 54, 55, 56, 57,
             97, 98, 99, 100, 101, 102, 65, 66, 67, 68, 69, 70}

HexCycle == <<48, 97, 65, 49, 98, 66, 50, 99, 67, 51, 100, 68, 52, 101, 69,
              53, 102, 70, 54, 55, 56, 57>>

\* Characters next to the hex ranges, and two that take 2 and 3 bytes.
OtherChars == {47, 58, 64, 71, 96, 103, 32, 233, 65296}

\* n hex digits, the cycle above from position `from` on.
HexRun(n, from) == [i \in 1..n |-> HexCycle[((i + from) % Len(HexCycle)) + 1]]

Patch(seq, p, x) == [seq EXCEPT ![p] = x]

StrLens == {0} \cup ((40 - MaxOff)..(40 + MaxOff))

StrSamples ==
    {HexRun(n, from) : n \in StrLens, from \in {0, 7}}
    \cup UNION {{Patch(HexRun(n, from), p, c) :
                    from \in {0, 7}, p \in {1, 2, 20, n - 1, n},
                    c \in OtherChars \cup {70, 102}} : n \in StrLens \ {0}}
    \cup {[i \in 1..40 |-> c] : c \in {70, 102, 71}}

ByteRun(n, x) == [i \in 1..n |-> x]

\* Buffer lengths: empty, one and two decimal digits, and around 20.
BufLens == {0, 1, 9, 10} \cup ((20 - MaxOff)..(20 + MaxOff))

ByteSamples ==
    {ByteRun(n, x) : n \in BufLens, x \in {0, 255}}
    \cup {Patch(ByteRun(20, x), p, y) :
            x \in {0, 171, 255}, p \in 1..20,
            y \in {1, 9, 10, 15, 16, 127, 128, 160, 254}}

\* ------------------------------------------------------ InfoHash's callers

DecoderIdle ==
    /\ bvalue = BDict(<<>>) /\ overflow_checks = FALSE
    /\ pc = "idle"
    /\ torrent = DefaultTorrent
    /\ dict_rest = {} /\ cur = 0
    /\ info = NewTorrentInfo /\ info_rest = {} /\ cur_info = 0
    /\ file_i = 0 /\ torrent_files = <<>>
    /\ torrent_file = NewTorrentFile /\ file_rest = {}
    /\ result = NotCalled /\ size_out = NotCalled /\ urls_out = NotCalled
    /\ order = <<>> /\ info_order = <<>>

InitInfoHash ==
    /\ DecoderIdle
    /\ ih_pc = "start"
    /\ \/ ih_src = "bytes" /\ ih_bytes \in ByteSamples /\ ih_str = <<>>
       \/ ih_src = "str" /\ ih_str \in StrSamples /\ ih_bytes = <<>>
    /\ info_hash = NotCalled /\ hex_out = NotCalled /\ parsed = NotCalled
    /\ tried = NotCalled /\ ser_out = NotCalled
    /\ de_out = NotCalled /\ de_round = NotCalled

\* InfoHash::from_bytes(&bytes)
FromBytes ==
    /\ ih_pc = "start" /\ ih_src = "bytes"
    /\ info_hash' = from_bytes(ih_bytes)
    /\ ih_pc' = IF IsReturned(info_hash') THEN "have" ELSE "panicked"
    /\ UNCHANGED <<ih_src, ih_bytes, ih_str, hex_out, parsed>>
    /\ UNCHANGED <<tried, ser_out, de_out, de_round>>
    /\ UNCHANGED dvars

\* InfoHash::from_str(s) on the caller's string
FromStr ==
    /\ ih_pc = "start" /\ ih_src = "str"
    /\ info_hash' = from_str(ih_str)
    /\ ih_pc' = IF IsReturned(info_hash') THEN "have" ELSE "failed"
    /\ UNCHANGED <<ih_src, ih_bytes, ih_str, hex_out, parsed>>
    /\ UNCHANGED <<tried, ser_out, de_out, de_round>>
    /\ UNCHANGED dvars

\* info_hash.to_hex_string()
ToHexString ==
    /\ ih_pc = "have"
    /\ hex_out' = to_hex_string(info_hash.v)
    /\ ih_pc' = IF IsReturned(hex_out') THEN "hexed" ELSE "panicked"
    /\ UNCHANGED <<ih_src, ih_bytes, ih_str, info_hash, parsed>>
    /\ UNCHANGED <<tried, ser_out, de_out, de_round>>
    /\ UNCHANGED dvars

\* InfoHash::from_str(&hex) on the string to_hex_string gave
ParseHex ==
    /\ ih_pc = "hexed"
    /\ parsed' = from_str(hex_out.v)
    /\ ih_pc' = "round"
    /\ UNCHANGED <<ih_src, ih_bytes, ih_str, info_hash, hex_out>>
    /\ UNCHANGED <<tried, ser_out, de_out, de_round>>
    /\ UNCHANGED dvars

\* InfoHash::try_from(bytes) on the caller's buffer
TryFrom ==
    /\ ih_pc = "start" /\ ih_src = "bytes" /\ tried = NotCalled
    /\ tried' = try_from(ih_bytes)
    /\ UNCHANGED <<ih_pc, ih_src, ih_bytes, ih_str, info_hash, hex_out, parsed>>
    /\ UNCHANGED <<ser_out, de_out, de_round>>
    /\ UNCHANGED dvars

\* info_hash.serialize(serializer)
Serialize ==
    /\ ih_pc \in {"have", "hexed", "round"} /\ ser_out = NotCalled
    /\ ser_out' = serialize(info_hash.v)
    /\ UNCHANGED <<ih_pc, ih_src, ih_bytes, ih_str, info_hash, hex_out, parsed>>
    /\ UNCHANGED <<tried, de_out, de_round>>
    /\ UNCHANGED dvars

\* InfoHash::deserialize(des) on a document holding the caller's string
Deserialize ==
    /\ ih_src = "str" /\ de_out = NotCalled
    /\ de_out' = deserialize(Str(ih_str))
    /\ UNCHANGED <<ih_pc, ih_src, ih_bytes, ih_str, info_hash, hex_out, parsed>>
    /\ UNCHANGED <<tried, ser_out, de_round>>
    /\ UNCHANGED dvars

\* InfoHash::deserialize(des) on what serialize emitted
DeserializeSerialized ==
    /\ IsReturned(ser_out) /\ de_round = NotCalled
    /\ de_round' = deserialize(ser_out.v)
    /\ UNCHANGED <<ih_pc, ih_src, ih_bytes, ih_str, info_hash, hex_out, parsed>>
    /\ UNCHANGED <<tried, ser_out, de_out>>
    /\ UNCHANGED dvars

NextInfoHash ==
    \/ FromBytes \/ FromStr \/ ToHexString \/ ParseHex
    \/ TryFrom \/ Serialize \/ Deserialize \/ DeserializeSerialized

SpecInfoHash == InitInfoHash /\ [][NextInfoHash]_vars

\* ------------------------------------- decode_torrent, in document order
\* The same arms, run over every dictionary in the order of its entries:
\* the value a second call is compared with.

RECURSIVE FileInOrder(_, _, _)
FileInOrder(d, m, tf) ==
    IF m > Len(d) THEN tf
    ELSE FileInOrder(d, m + 1, FileKeyStep(tf, d[m].k, d[m].val))

FilesInOrder(l) ==
    LET s == SelectSeq(l, IsDict)
    IN  [i \in 1..Len(s) |-> FileInOrder(s[i].d, 1, NewTorrentFile)]

RECURSIVE InfoInOrder(_, _, _)
InfoInOrder(d, j, inf) ==
    IF j > Len(d) THEN Returned(inf)
    ELSE IF PrivatePanics(d[j].k, d[j].val) THEN Panicked
    ELSE IF EntersFiles(d[j].k, d[j].val)
    THEN InfoInOrder(d, j + 1, [inf EXCEPT !.files = Some(FilesInOrder(d[j].val.l))])
    ELSE InfoInOrder(d, j + 1, InfoKeyStep(inf, d[j].k, d[j].val))

RECURSIVE TopInOrder(_, _, _)
TopInOrder(d, i, t) ==
    IF i > Len(d) THEN Returned(t)
    ELSE IF EntersInfo(d[i].k, d[i].val)
    THEN LET r == InfoInOrder(d[i].val.d, 1, NewTorrentInfo)
         IN  IF IsReturned(r)
             THEN TopInOrder(d, i + 1, [t EXCEPT !.info = r.v])
             ELSE Panicked
    ELSE TopInOrder(d, i + 1, TopKeyStep(t, d[i].k, d[i].val))

DecodeInOrder(bv) ==
    IF TopLevelPanics(bv) THEN Panicked ELSE TopInOrder(bv.d, 1, DefaultTorrent)

\* ------------------------------------------------------------- vocabulary

Done == pc \in {"returned", "panicked"}

\* The value a dictionary holds under a key, if any.
Get(d, key) ==
    LET S == {i \in 1..Len(d) : d[i].k = key}
    IN  IF S = {} THEN None ELSE Some(d[CHOOSE i \in S : TRUE].val)

HasKey(d, key) == \E i \in 1..Len(d) : d[i].k = key

Remove(d, i) == SubSeq(d, 1, i - 1) \o SubSeq(d, i + 1, Len(d))

\* The document without its top-level entry i.
WithoutTop(bv, i) == BDict(Remove(bv.d, i))

\* The document without entry j of the dictionary under its top-level entry i.
WithoutInner(bv, i, j) ==
    BDict([bv.d EXCEPT ![i] = Entry(@.k, BDict(Remove(@.val.d, j)))])

\* The document without entry m of the file dictionary at position f of the
\* list under entry j of the dictionary under its top-level entry i.
WithoutFileKey(bv, i, j, f, m) ==
    LET inf  == bv.d[i].val.d
        fl   == inf[j].val.l
        fl2  == [fl EXCEPT ![f] = BDict(Remove(fl[f].d, m))]
        inf2 == [inf EXCEPT ![j] = Entry(inf[j].k, BList(fl2))]
    IN  BDict([bv.d EXCEPT ![i] = Entry(bv.d[i].k, BDict(inf2))])

\* The variant the specification expects under each recognised key.
TopShape(key) ==
    IF key = K_info THEN "Dict"
    ELSE IF key \in {K_nodes, K_httpseeds, K_announce_list} THEN "List"
    ELSE IF key = K_creation_date THEN "Int"
    ELSE "Bytes"

InfoShape(key) ==
    IF key \in {K_files, K_path} THEN "List"
    ELSE IF key \in {K_piece_length, K_length, K_private} THEN "Int"
    ELSE "Bytes"

FileShape(key) ==
    IF key = K_path THEN "List" ELSE IF key = K_length THEN "Int" ELSE "Bytes"

\* The top-level entries holding an info dictionary.
InfoDictsAt(bv) ==
    {i \in 1..Len(bv.d) : bv.d[i].k = K_info /\ IsDict(bv.d[i].val)}

\* ================================================================= claims

\* C1: decoding a dictionary whose `info` dictionary has no `private` key
\* gives info.private = None; `private` = 0 gives Some(0) and 1 gives
\* Some(1); any other integer makes the decode panic, and then no Torrent
\* is returned.
C1_PrivateFlag ==
    (Done /\ IsDict(bvalue)) =>
        \A i \in InfoDictsAt(bvalue) :
            LET p == Get(bvalue.d[i].val.d, K_private)
            IN  /\ ~IsSome(p) =>
                     IsReturned(result) /\ result.v.info.private = None
                /\ p = Some(BInt(0)) =>
                     IsReturned(result) /\ result.v.info.private = Some(0)
                /\ p = Some(BInt(1)) =>
                     IsReturned(result) /\ result.v.info.private = Some(1)
                /\ (IsSome(p) /\ IsInt(p.v) /\ p.v.i \notin {0, 1}) =>
                     result = Panicked

\* A decode that panicked on `private` = -1 after it had visited other keys.
C1_Witness ==
    /\ pc = "panicked" /\ IsDict(bvalue)
    /\ \E i \in InfoDictsAt(bvalue) :
          /\ Get(bvalue.d[i].val.d, K_private) = Some(BInt(-1))
          /\ Len(bvalue.d[i].val.d) = 2
          /\ info_rest = {}
    /\ result = Panicked

\* C2: a top-level value that is no dictionary makes decode_torrent panic:
\* the caller never gets a Torrent, not even the default one.
C2_TopLevelNotDict ==
    ~IsDict(bvalue) =>
        /\ ~IsReturned(result)
        /\ pc # "call" => (pc = "panicked" /\ result = Panicked)

\* A decode of a list (one that holds a well-formed dictionary) has panicked.
C2_Witness ==
    /\ IsList(bvalue) /\ bvalue.l # <<>>
    /\ pc = "panicked" /\ result = Panicked

\* C3: announce_urls on a Torrent with neither `announce` nor
\* `announce-list` populated is an error the caller sees, never an empty
\* list; so it is for every Torrent decode_torrent returns for a dictionary
\* with neither key.
C3_MissingAnnounceIsError ==
    (IsReturned(result) /\ urls_out # NotCalled) =>
        /\ (~IsSome(result.v.announce) /\ ~IsSome(result.v.announce_list)) =>
              urls_out = Panicked
        /\ (/\ pc = "returned"
            /\ ~HasKey(bvalue.d, K_announce)
            /\ ~HasKey(bvalue.d, K_announce_list)) =>
              urls_out = Panicked

\* What the code does there: the decoded Torrent keeps the default
\* announce_list = Some([]), and announce_urls returns the empty list.
C3_Witness ==
    /\ pc = "returned"
    /\ ~HasKey(bvalue.d, K_announce) /\ ~HasKey(bvalue.d, K_announce_list)
    /\ result.v.announce_list = Some(<<>>)
    /\ urls_out = Returned(<<>>)

\* C4: decoding a dictionary with an `announce` byte string and no
\* `announce-list` key gives announce = Some(URL) and announce_list = None,
\* and announce_urls gives exactly [URL].
C4_AnnounceOnly ==
    (pc = "returned" /\ ~HasKey(bvalue.d, K_announce_list)) =>
        LET a == Get(bvalue.d, K_announce)
        IN  (IsSome(a) /\ IsBytes(a.v)) =>
                /\ result.v.announce = Some(from_utf8_lossy(a.v.b))
                /\ result.v.announce_list = None
                /\ urls_out # NotCalled =>
                      urls_out = Returned(<<from_utf8_lossy(a.v.b)>>)

\* What the code does there: announce is set, announce_list stays
\* Some([]), and announce_urls returns the empty list.
C4_Witness ==
    /\ pc = "returned" /\ ~HasKey(bvalue.d, K_announce_list)
    /\ Get(bvalue.d, K_announce) = Some(BBytes(B_a))
    /\ Get(bvalue.d, K_info) = Some(InfoSingleFile)
    /\ result.v.announce = Some(B_a)
    /\ result.v.announce_list = Some(<<>>)
    /\ urls_out = Returned(<<>>)

RECURSIVE Sum(_)
Sum(fs) == IF fs = <<>> THEN 0 ELSE Head(fs).length + Sum(Tail(fs))

\* The total size as the specification defines it.
TotalSize(t) ==
    IF IsSome(t.info.length) THEN t.info.length.v
    ELSE IF IsSome(t.info.files) THEN Sum(t.info.files.v)
    ELSE 0

\* C5: file_size is info.length when present, else the sum of the lengths
\* of the entries of info.files when present, else 0.
C5_FileSize ==
    (IsReturned(result) /\ size_out # NotCalled) =>
        size_out = Returned(TotalSize(result.v))

\* C5, as far as the code goes: file_size is the total size whenever the
\* running sum stays an i64; a call reads the Torrent and changes nothing.
C5_FileSizeInRange ==
    (IsReturned(result) /\ size_out # NotCalled) =>
        \/ size_out = Returned(TotalSize(result.v))
        \/ /\ ~IsSome(result.v.info.length) /\ IsSome(result.v.info.files)
           /\ \E n \in 1..Len(result.v.info.files.v) :
                 LET s == Sum(SubSeq(result.v.info.files.v, 1, n))
                 IN  s < i64_MIN \/ s > i64_MAX

C5_ReadOnly == [][size_out' # size_out => result' = result]_vars

\* A decoded multi-file Torrent whose lengths sum past the largest i64.
C5_Witness ==
    /\ pc = "returned"
    /\ ~IsSome(result.v.info.length) /\ IsSome(result.v.info.files)
    /\ Len(result.v.info.files.v) = 3
    /\ size_out # NotCalled
    /\ size_out # Returned(TotalSize(result.v))

\* C6: keys that are no recognised name are ignored: a document with such a
\* key added, at the top level or inside the `info` dictionary, decodes
\* exactly when the document without it does, and to an equal Torrent.
C6_UnknownKeysIgnored ==
    (Done /\ IsDict(bvalue)) =>
        /\ \A i \in 1..Len(bvalue.d) :
              bvalue.d[i].k \notin TopKeys =>
                  result = DecodeInOrder(WithoutTop(bvalue, i))
        /\ \A i \in InfoDictsAt(bvalue) :
              \A j \in 1..Len(bvalue.d[i].val.d) :
                  bvalue.d[i].val.d[j].k \notin InfoKeys =>
                      result = DecodeInOrder(WithoutInner(bvalue, i, j))

\* A returned decode of a document with an unrecognised key at the top
\* level and another inside `info`.
C6_Witness ==
    /\ pc = "returned" /\ IsReturned(result)
    /\ HasKey(bvalue.d, K_zz)
    /\ \E i \in InfoDictsAt(bvalue) :
          /\ HasKey(bvalue.d[i].val.d, K_infoFF)
          /\ HasKey(bvalue.d[i].val.d, K_length)

\* C7: a recognised key (of the top level, of `info`, of a file) whose value
\* has the wrong variant never makes the decode fail and leaves the Torrent
\* as it is when the key is absent (an integer `private` is the right
\* variant, so it is not covered).
C7_SoftTolerance ==
    (Done /\ IsDict(bvalue)) =>
        /\ \A i \in 1..Len(bvalue.d) :
              (/\ bvalue.d[i].k \in TopKeys
               /\ bvalue.d[i].val.t # TopShape(bvalue.d[i].k)) =>
                  result = DecodeInOrder(WithoutTop(bvalue, i))
        /\ \A i \in InfoDictsAt(bvalue) :
              \A j \in 1..Len(bvalue.d[i].val.d) :
                  LET e == bvalue.d[i].val.d[j]
                  IN  /\ (e.k \in InfoKeys /\ e.val.t # InfoShape(e.k)) =>
                             result = DecodeInOrder(WithoutInner(bvalue, i, j))
                      /\ (e.k = K_files /\ IsList(e.val)) =>
                             \A f \in {x \in 1..Len(e.val.l) : IsDict(e.val.l[x])} :
                                 \A m \in 1..Len(e.val.l[f].d) :
                                     LET fe == e.val.l[f].d[m]
                                     IN  (/\ fe.k \in FileKeys
                                          /\ fe.val.t # FileShape(fe.k)) =>
                                             result = DecodeInOrder(
                                                 WithoutFileKey(bvalue, i, j, f, m))

\* A returned decode of a document whose `info` holds `length` and
\* `private` as byte strings.
C7_Witness ==
    /\ pc = "returned" /\ IsReturned(result)
    /\ \E i \in InfoDictsAt(bvalue) :
          /\ Get(bvalue.d[i].val.d, K_private) = Some(BBytes(B_a))
          /\ Get(bvalue.d[i].val.d, K_length) = Some(BBytes(B_a))
    /\ result.v.info.private = None /\ result.v.info.length = None

LowerHexChars == {48, 49, 50, 51, 52, 53, 54, 55, 56, 57, 97, 98, 99, 100, 101, 102}

\* str::to_lowercase, on ASCII text.
to_lowercase(str) ==
    [i \in 1..Len(str) |-> IF str[i] >= 65 /\ str[i] <= 90 THEN str[i] + 32 ELSE str[i]]

Range(seq) == {seq[i] : i \in 1..Len(seq)}

\* C8: for every 20-byte value b, from_bytes(b), to_hex_string and from_str
\* of the hex text all succeed, and from_str gives an InfoHash equal to
\* from_bytes(b).
C8_RoundTrip ==
    (ih_src = "bytes" /\ Len(ih_bytes) = INFO_HASH_BYTES_LEN) =>
        /\ ih_pc \in {"start", "have", "hexed", "round"}
        /\ ih_pc = "round" =>
              /\ IsReturned(info_hash) /\ info_hash.v = ih_bytes
              /\ parsed = info_hash

\* A round trip of 20 bytes that are not all alike has been made.
C8_Witness ==
    /\ ih_src = "bytes" /\ ih_pc = "round"
    /\ {171, 160} \subseteq Range(ih_bytes)
    /\ IsReturned(parsed)

\* C9: from_str(s) fails exactly when s is not 40 characters long or holds
\* a character outside [0-9a-fA-F]; a failure is an error and gives no
\* InfoHash.
C9_FromStrFailsExactly ==
    (ih_src = "str" /\ ih_pc # "start") =>
        LET bad == Len(ih_str) # 40 \/ \E i \in 1..Len(ih_str) : ih_str[i] \notin HexChars
        IN  /\ bad => (info_hash.st = "err" /\ DOMAIN info_hash = {"st", "e"})
            /\ ~bad => (IsReturned(info_hash) /\ Len(info_hash.v) = INFO_HASH_BYTES_LEN)

\* A string of 39 characters and 40 bytes has been refused.
C9_Witness ==
    /\ ih_src = "str" /\ ih_pc = "failed"
    /\ Len(ih_str) = 39 /\ Len(as_bytes(ih_str)) = 40
    /\ info_hash = Err("InvalidInput")

\* C10: to_hex_string gives exactly 40 characters, all in [0-9a-f]; for a
\* valid hex string s of any letter case, to_hex_string(from_str(s)) is s in
\* lower case.
C10_HexIsLowercase ==
    hex_out # NotCalled =>
        /\ IsReturned(hex_out)
        /\ Len(hex_out.v) = 40
        /\ Range(hex_out.v) \subseteq LowerHexChars
        /\ ih_src = "str" => hex_out.v = to_lowercase(ih_str)

\* A string with letters of both cases has been parsed and printed again.
C10_Witness ==
    /\ ih_src = "str" /\ ih_pc = "hexed"
    /\ {65, 70, 97, 102} \subseteq Range(ih_str)
    /\ hex_out.v # ih_str

\* The number a run of decimal digits stands for, -1 when the text is empty
\* or holds another character.
RECURSIVE DecimalValue(_)
DecimalValue(str) ==
    IF str = <<>> \/ str[Len(str)] < 48 \/ str[Len(str)] > 57 THEN -1
    ELSE IF Len(str) = 1 THEN str[1] - 48
    ELSE LET hi == DecimalValue(SubSeq(str, 1, Len(str) - 1))
         IN  IF hi < 0 THEN -1 ELSE (hi * 10) + (str[Len(str)] - 48)

\* The text reads "got <got> bytes, expected <expected>".
CarriesLengths(msg, got, expected) ==
    \E k \in 1..3 :
        \E m \in 1..3 :
            /\ Len(msg) = 4 + k + 17 + m
            /\ SubSeq(msg, 1, 4) = <<103, 111, 116, 32>>
            /\ DecimalValue(SubSeq(msg, 5, 4 + k)) = got
            /\ SubSeq(msg, 5 + k, 21 + k) =
                   <<32, 98, 121, 116, 101, 115, 44, 32,
                     101, 120, 112, 101, 99, 116, 101, 100, 32>>
            /\ DecimalValue(SubSeq(msg, 22 + k, Len(msg))) = expected

\* C11: try_from of a buffer shorter than 20 bytes is the error
\* NotEnoughBytes, of a longer one the error TooManyBytes, each with a message
\* that carries the buffer's length and the expected 20; of exactly 20 bytes
\* it is Ok with an InfoHash of those bytes; it panics for no buffer.
C11_TryFromLength ==
    tried # NotCalled =>
        /\ tried # Panicked
        /\ Len(ih_bytes) < 20 =>
              /\ tried.st = "err" /\ tried.e.kind = "NotEnoughBytes"
              /\ CarriesLengths(tried.e.message, Len(ih_bytes), 20)
        /\ Len(ih_bytes) > 20 =>
              /\ tried.st = "err" /\ tried.e.kind = "TooManyBytes"
              /\ CarriesLengths(tried.e.message, Len(ih_bytes), 20)
        /\ Len(ih_bytes) = 20 => tried = Returned(ih_bytes)

\* try_from has refused a buffer of 21 bytes as too long.
C11_Witness ==
    /\ Len(ih_bytes) = 21
    /\ tried.st = "err" /\ tried.e.kind = "TooManyBytes"

\* C12: serializing an InfoHash emits exactly the string to_hex_string
\* returns; deserializing a string succeeds exactly when from_str succeeds on
\* it and gives the same InfoHash; deserializing what serialize emitted gives
\* the InfoHash back.
C12_SerdeIsHexCodec ==
    /\ ser_out # NotCalled =>
          /\ IsReturned(ser_out) /\ IsReturned(to_hex_string(info_hash.v))
          /\ ser_out.v = Str(to_hex_string(info_hash.v).v)
    /\ de_out # NotCalled =>
          /\ IsReturned(de_out) <=> IsReturned(from_str(ih_str))
          /\ IsReturned(de_out) => de_out = from_str(ih_str)
          /\ de_out # Panicked
    /\ de_round # NotCalled => de_round = Returned(info_hash.v)

\* A string with letters of both cases has been deserialized, and the
\* InfoHash parsed from it serialized and deserialized again.
C12_Witness ==
    /\ ih_src = "str" /\ {65, 70, 97, 102} \subseteq Range(ih_str)
    /\ IsReturned(de_out) /\ de_out = info_hash
    /\ IsReturned(ser_out) /\ ser_out.v.s # ih_str
    /\ de_round = info_hash

\* The document with the list l under entry j of the dictionary under its
\* top-level entry i.
WithFilesList(bv, i, j, l) ==
    LET inf  == bv.d[i].val.d
        inf2 == [inf EXCEPT ![j] = Entry(inf[j].k, BList(l))]
    IN  BDict([bv.d EXCEPT ![i] = Entry(bv.d[i].k, BDict(inf2))])

\* An entry of a files list that matches the file shape somewhere: a
\* dictionary with one of `path`, `length`, `md5sum` in the expected variant.
MatchesFileShape(x) ==
    /\ IsDict(x)
    /\ \E m \in 1..Len(x.d) :
          /\ x.d[m].k \in FileKeys
          /\ x.d[m].val.t = FileShape(x.d[m].k)

\* The `files` entries of an info dictionary that hold a list.
FilesListsAt(d) == {j \in 1..Len(d) : d[j].k = K_files /\ IsList(d[j].val)}

\* C13: an entry of the `files` list that matches the file shape nowhere (no
\* dictionary, or a dictionary with none of `path`, `length`, `md5sum` in
\* the expected variant) is dropped and does not abort the decode: the
\* outcome is that of the document whose list holds the other entries only.
C13_MalformedFilesDropped ==
    (Done /\ IsDict(bvalue)) =>
        \A i \in InfoDictsAt(bvalue) :
            \A j \in FilesListsAt(bvalue.d[i].val.d) :
                result = DecodeInOrder(
                    WithFilesList(bvalue, i, j,
                        SelectSeq(bvalue.d[i].val.d[j].val.l, MatchesFileShape)))

\* C13, the part the code keeps: the entries that are no dictionaries are
\* dropped, every dictionary gives one file, in document order, and no entry
\* makes the decode fail.
C13_NonDictionariesDropped ==
    (Done /\ IsDict(bvalue)) =>
        \A i \in InfoDictsAt(bvalue) :
            \A j \in FilesListsAt(bvalue.d[i].val.d) :
                /\ result = DecodeInOrder(
                       WithFilesList(bvalue, i, j,
                           SelectSeq(bvalue.d[i].val.d[j].val.l, IsDict)))
                /\ IsReturned(result) =>
                       /\ IsSome(result.v.info.files)
                       /\ Len(result.v.info.files.v) =
                              Len(SelectSeq(bvalue.d[i].val.d[j].val.l, IsDict))

\* A returned decode of a files list with an integer, an empty dictionary
\* and a dictionary of wrong variants only: the integer is gone, the
\* dictionaries are files with no path and length 0.
C13_Witness ==
    /\ pc = "returned" /\ IsReturned(result)
    /\ \E i \in InfoDictsAt(bvalue) :
          \E j \in FilesListsAt(bvalue.d[i].val.d) :
              LET l == bvalue.d[i].val.d[j].val.l
              IN  /\ Len(l) = 5 /\ IsInt(l[1]) /\ l[2] = BDict(<<>>)
                  /\ ~MatchesFileShape(l[4])
    /\ Len(result.v.info.files.v) = 4
    /\ result.v.info.files.v[1] = NewTorrentFile
    /\ result.v.info.files.v[3] = NewTorrentFile

\* The document with the value v under its top-level entry i.
WithTopValue(bv, i, v) == BDict([bv.d EXCEPT ![i] = Entry(bv.d[i].k, v)])

\* The top-level entries with the key `key` and a list as value.
TopListsAt(bv, key) ==
    {i \in 1..Len(bv.d) : bv.d[i].k = key /\ IsList(bv.d[i].val)}

\* A 2-element list [byte-string host, integer port].
IsPair(x) ==
    /\ IsList(x) /\ Len(x.l) = 2
    /\ IsBytes(x.l[1]) /\ IsInt(x.l[2])

\* A list that starts with a byte string and an integer, of any length.
StartsAsPair(x) ==
    /\ IsList(x) /\ Len(x.l) >= 2
    /\ IsBytes(x.l[1]) /\ IsInt(x.l[2])

\* The (host, port) pairs of the elements of l that satisfy Keep.
PairsOf(l, Keep(_)) ==
    LET s == SelectSeq(l, Keep)
    IN  [n \in 1..Len(s) |-> TorrentNode(from_utf8_lossy(s[n].l[1].b), s[n].l[2].i)]

\* C14: when `nodes` is a list, the nodes are exactly the (host, port) pairs
\* of its elements that are 2-element lists [byte string, integer], in
\* document order; every other element is dropped, and none makes the decode
\* fail.
C14_NodesArePairs ==
    (Done /\ IsDict(bvalue)) =>
        \A i \in TopListsAt(bvalue, K_nodes) :
            /\ result = DecodeInOrder(
                   WithTopValue(bvalue, i, BList(SelectSeq(bvalue.d[i].val.l, IsPair))))
            /\ IsReturned(result) =>
                   result.v.nodes = Some(PairsOf(bvalue.d[i].val.l, IsPair))

\* C14, the part the code keeps: the nodes are the pairs of the elements
\* that are lists starting with a byte string and an integer, in document
\* order, and no element makes the decode fail.
C14_NodesStartAsPairs ==
    (Done /\ IsDict(bvalue)) =>
        \A i \in TopListsAt(bvalue, K_nodes) :
            /\ result = DecodeInOrder(
                   WithTopValue(bvalue, i,
                       BList(SelectSeq(bvalue.d[i].val.l, StartsAsPair))))
            /\ IsReturned(result) =>
                   result.v.nodes = Some(PairsOf(bvalue.d[i].val.l, StartsAsPair))

\* A returned decode of a `nodes` list with a 3-element list
\* ["b", 2, 3]: the node ("b", 2) is among the nodes.
C14_Witness ==
    /\ pc = "returned" /\ IsReturned(result)
    /\ \E i \in TopListsAt(bvalue, K_nodes) :
          \E n \in 1..Len(bvalue.d[i].val.l) :
              bvalue.d[i].val.l[n] = BList(<<BBytes(B_b), BInt(2), BInt(3)>>)
    /\ result.v.nodes = Some(<<TorrentNode(B_a, 1), TorrentNode(B_b, 2)>>)

\* A sequence that is not in increasing order.
OutOfOrder(seq) == \E a \in 1..Len(seq) : \E b \in 1..Len(seq) : a < b /\ seq[a] > seq[b]

\* C15: the outcome of decode_torrent does not depend on the order in which
\* the keys of a dictionary are visited: whatever order the top-level, info
\* and file entries come in, the run ends as the run in document order
\* does, with a panic or with an equal Torrent.
C15_OrderIndependent ==
    Done => result = DecodeInOrder(bvalue)

\* A returned decode that visited `info` after the entry behind it and,
\* inside `info`, `files` before `length`.
C15_Witness ==
    /\ pc = "returned" /\ IsReturned(result)
    /\ OutOfOrder(order) /\ OutOfOrder(info_order)
    /\ bvalue.d[order[2]].k = K_info
    /\ info_dict[info_order[1]].k = K_files
    /\ info_dict[info_order[2]].k = K_length
    /\ IsSome(result.v.info.files) /\ IsSome(result.v.info.length)

\* The byte-string elements of a list, in their order.
BytesOnly(l) == SelectSeq(l, IsBytes)

\* The list-shaped elements of a list, each with its byte-string elements
\* only.
TiersOnly(l) ==
    LET s == SelectSeq(l, IsList)
    IN  [n \in 1..Len(s) |-> BList(BytesOnly(s[n].l))]

\* out holds the texts of the byte strings bs, one for one.
TextsOf(out, bs) ==
    /\ Len(out) = Len(bs)
    /\ \A n \in 1..Len(bs) : out[n] = from_utf8_lossy(bs[n].b)

\* C16: when `announce-list` is a list, the tiers are its list-shaped
\* elements in document order, each with its byte-string elements in their
\* order; when `httpseeds` is a list, the seeds are its byte-string elements
\* in document order; what is dropped does not make the decode fail (the
\* outcome is that of the document without the dropped elements).
C16_ListsKeepOrder ==
    (Done /\ IsDict(bvalue)) =>
        /\ \A i \in TopListsAt(bvalue, K_announce_list) :
              LET l == bvalue.d[i].val.l
                  tiers == TiersOnly(l)
              IN  /\ result = DecodeInOrder(WithTopValue(bvalue, i, BList(tiers)))
                  /\ IsReturned(result) =>
                        /\ IsSome(result.v.announce_list)
                        /\ Len(result.v.announce_list.v) = Len(tiers)
                        /\ \A n \in 1..Len(tiers) :
                              TextsOf(result.v.announce_list.v[n], tiers[n].l)
        /\ \A i \in TopListsAt(bvalue, K_httpseeds) :
              LET l == bvalue.d[i].val.l
              IN  /\ result = DecodeInOrder(WithTopValue(bvalue, i, BList(BytesOnly(l))))
                  /\ IsReturned(result) =>
                        /\ IsSome(result.v.httpseeds)
                        /\ TextsOf(result.v.httpseeds.v, BytesOnly(l))

\* A returned decode of a document whose `announce-list` holds an integer
\* between its tiers and an integer inside a tier, and whose `httpseeds`
\* holds an integer between two seeds.
C16_Witness ==
    /\ pc = "returned" /\ IsReturned(result)
    /\ \E i \in TopListsAt(bvalue, K_announce_list) :
          Len(bvalue.d[i].val.l) = 4 /\ IsInt(bvalue.d[i].val.l[2])
    /\ \E i \in TopListsAt(bvalue, K_httpseeds) :
          Len(bvalue.d[i].val.l) = 3 /\ IsInt(bvalue.d[i].val.l[2])
    /\ result.v.announce_list = Some(<< <<B_a, B_b>>, <<(<<233>>)>>, <<>> >>)
    /\ result.v.httpseeds = Some(<<B_a, B_b>>)

====
